---- MODULE Spec2Model ----
(***************************************************************************)
(* Model of nkxxll/dsm, src/lemon:                                         *)
(*   main.c          - the stream accumulator: reads stdin into a growable *)
(*                     buffer, terminates it, calls parse_to_string once,  *)
(*                     prints the result and frees it.                     *)
(*   grammar_stubs.c - the OCaml binding shim ocaml_parse_to_string.       *)
(* The heap is modelled block by block: a block has an allocated size, the *)
(* contents of its initialised cells, a state (none / live / freed) and a  *)
(* count of the free() calls made on it.  A char cell holds its byte       *)
(* representation 0..255.                                                  *)
(***************************************************************************)
EXTENDS Integers, Sequences, FiniteSets, TLC

\* ---------------------------------------------------------------- bounds
\* The longest input stdin delivers before end-of-stream is forced.
MaxLen == 2050
\* The number of input streams tried (see StreamByte).
NumStreams == 2

\* ------------------------------------------------------ program constants
InitialCapacity == 1024
EOF == -1
EXIT_SUCCESS == 0
EXIT_FAILURE == 1
NUL == 0

VARIABLES
  pc,          \* main's position
  stream,      \* which input is on stdin
  stdinPos,    \* bytes of stdin consumed by fgetc so far
  c,           \* int c
  capacity,    \* size_t capacity
  size,        \* size_t size
  buffer,      \* initialised cells of the block buffer points to: index -> byte
  bufAlloc,    \* allocated size of that block
  bufState,    \* "none" | "live" | "freed"
  bufFrees,    \* free() calls made on buffer's block
  res,         \* contents of the block parse_to_string returned (with its NUL)
  resState,    \* "none" | "live" | "freed"
  resFrees,    \* free() calls made on res
  parseCalls,  \* calls of parse_to_string made by main
  out,         \* bytes written to stdout
  err,         \* messages written to stderr
  exitStatus,  \* -1 while running, then the process's exit status
  grown,       \* doublings made since the last fgetc
  sh_pc, v_input, input, result, resultState, v_res,
  shAllocs, shFrees, inputFrees, shLog

accVars == <<pc, stream, stdinPos, c, capacity, size, buffer, bufAlloc, bufState,
             bufFrees, res, resState, resFrees, parseCalls, out, err,
             exitStatus, grown>>
shimVars == <<sh_pc, v_input, input, result, resultState, v_res,
              shAllocs, shFrees, inputFrees, shLog>>
vars == <<accVars, shimVars>>

\* ----------------------------------------------------------------- inputs
\* The i-th byte (i >= 1) of input stream s: stream 1 is "abcabc..." (no NUL
\* byte), stream 2 has embedded NUL bytes and bytes above 127, the others are
\* byte patterns of their own.
StreamByte(s, i) ==
  CASE s = 1 -> 97 + ((i - 1) % 3)
    [] s = 2 -> IF i % 700 = 3 THEN 0 ELSE 100 + (i % 150)
    [] OTHER -> (i * s) % 256

\* The first n bytes of stream s.
StreamPrefix(s, n) == [i \in 1..n |-> StreamByte(s, i)]

\* ------------------------------------------------------------ C semantics
\* Mutant of ToChar: the conversion strips the high bit.
ToCharSevenBit(x) == x % 128

\* (char)c: the conversion keeps the low 8 bits of the int.
ToChar(x) == x % 256

\* Whether the block's cells, read from index 0, hit a NUL inside the block
\* without crossing an uninitialised cell.
HasCStr(buf, alloc) ==
  \E i \in DOMAIN buf : /\ buf[i] = NUL
                        /\ i < alloc
                        /\ \A j \in 0..i : j \in DOMAIN buf

\* Index of the first NUL of a block that HasCStr.
FirstNul(buf) ==
  LET Z == {i \in DOMAIN buf : buf[i] = NUL}
  IN  CHOOSE i \in Z : \A j \in Z : i <= j

\* The C string a block holds: the bytes before its first NUL.
CStrOf(buf) == [k \in 1..FirstNul(buf) |-> buf[k - 1]]

\* The C string a sequence of bytes (a block's contents) holds.
CStrOfSeq(s) ==
  LET Z == {i \in 1..Len(s) : s[i] = NUL}
  IN  IF Z = {} THEN s
      ELSE SubSeq(s, 1, (CHOOSE i \in Z : \A j \in Z : i <= j) - 1)

\* "RESULT:\n"
Header == <<82, 69, 83, 85, 76, 84, 58, 10>>
Newline == <<10>>

\* extern char *parse_to_string(char *input): the stub parser echoes its
\* input; it returns a newly allocated NUL-terminated block.
parse_to_string(s) == s \o <<NUL>>

\* ------------------------------------------------------------- stderr text
\* DEBUG_PRINT(fmt, ...): one line on stderr naming the source line.
DebugLine(line, text) == <<"DEBUG", line, text>>
\* perror(msg): one diagnostic line on stderr.
PerrorLine(msg) == <<"perror", msg>>

\* A step whose behaviour the C standard leaves undefined (a write or read
\* outside the block, a use of a freed block): the run is marked and stops.
Undefined ==
  /\ pc' = "UB"
  /\ UNCHANGED <<stream, stdinPos, c, capacity, size, buffer, bufAlloc, bufState,
                 bufFrees, res, resState, resFrees, parseCalls, out, err,
                 exitStatus, grown>>
  /\ UNCHANGED shimVars

\* --------------------------------------------------------- the accumulator
\* The shim's locals outside a call.
NoLocals ==
  /\ v_input = <<>>
  /\ input = <<>>
  /\ result = <<>>
  /\ resultState = "none"
  /\ v_res = <<>>

\* The shim before any call.
ShimIdle ==
  /\ sh_pc = "idle"
  /\ NoLocals
  /\ shAllocs = 0
  /\ shFrees = 0
  /\ inputFrees = 0
  /\ shLog = <<>>

\* The shim in a run of the accumulator: not linked in.
ShimOff ==
  /\ sh_pc = "off"
  /\ NoLocals
  /\ shAllocs = 0
  /\ shFrees = 0
  /\ inputFrees = 0
  /\ shLog = <<>>

\* main's variables at entry, for the stdin given.
MainEntry(p, s) ==
  /\ pc = p
  /\ stream = s
  /\ stdinPos = 0
  /\ c = 0
  /\ capacity = InitialCapacity
  /\ size = 0
  /\ buffer = [i \in {} |-> 0]
  /\ bufAlloc = 0
  /\ bufState = "none"
  /\ bufFrees = 0
  /\ res = <<>>
  /\ resState = "none"
  /\ resFrees = 0
  /\ parseCalls = 0
  /\ out = <<>>
  /\ err = <<>>
  /\ exitStatus = -1
  /\ grown = 0

\* main.c:25-28: main entered, capacity and size initialised, nothing allocated.
AccStart == \E s \in 1..NumStreams : MainEntry("start", s)

\* The accumulator in a run of the shim: main is not the program running.
AccOff == MainEntry("off", 1)

\* A run exercises one of the two components: the accumulator's process
\* (main), or a managed caller making calls to the binding shim.
Init ==
  \/ AccStart /\ ShimOff
  \/ AccOff /\ ShimIdle

\* main.c:26-34: buffer = malloc(capacity); a failed malloc is reported and
\* ends the process.
Malloc ==
  /\ pc = "start"
  /\ \/ /\ bufState' = "live"
        /\ bufAlloc' = capacity
        /\ err' = err \o <<DebugLine(26, "Starting main function"),
                           DebugLine(34, "Initial buffer allocated")>>
        /\ pc' = "loop"
        /\ UNCHANGED exitStatus
     \/ /\ err' = err \o <<DebugLine(26, "Starting main function"),
                           PerrorLine("Could not allocate buffer with capacity")>>
        /\ exitStatus' = EXIT_FAILURE
        /\ pc' = "exited"
        /\ UNCHANGED <<bufState, bufAlloc>>
  /\ UNCHANGED <<stream, stdinPos, c, capacity, size, buffer, bufFrees, res,
                 resState, resFrees, parseCalls, out, grown>>
  /\ UNCHANGED shimVars

\* main.c:37: c = fgetc(stdin); the next byte, or EOF at end-of-stream.
Fgetc ==
  /\ pc = "loop"
  /\ \/ /\ stdinPos < MaxLen
        /\ c' = StreamByte(stream, stdinPos + 1)
        /\ stdinPos' = stdinPos + 1
        /\ pc' = "test"
     \/ /\ c' = EOF
        /\ pc' = "term"
        /\ UNCHANGED stdinPos
  /\ grown' = 0
  /\ UNCHANGED <<stream, capacity, size, buffer, bufAlloc, bufState, bufFrees,
                 res, resState, resFrees, parseCalls, out, err, exitStatus>>
  /\ UNCHANGED shimVars

\* Mutant of NeedsGrowth: grows only when the buffer is full, leaving no room
\* for the terminator.
NeedsGrowthNoHeadroom(sz, cap) == sz >= cap

\* main.c:38: the growth test.
NeedsGrowth(sz, cap) == sz + 1 >= cap

\* Mutant of NextCapacity: grows by half instead of doubling.
NextCapacityByHalf(cap) == cap + cap \div 2

\* main.c:39: the new capacity.
NextCapacity(cap) == cap * 2

\* main.c:38 (taken) and 39: capacity *= 2.
Double ==
  /\ pc = "test"
  /\ NeedsGrowth(size, capacity)
  /\ capacity' = NextCapacity(capacity)
  /\ grown' = grown + 1
  /\ pc' = "realloc"
  /\ UNCHANGED <<stream, stdinPos, c, size, buffer, bufAlloc, bufState, bufFrees,
                 res, resState, resFrees, parseCalls, out, err, exitStatus>>
  /\ UNCHANGED shimVars

\* main.c:38 (not taken).
NoGrowth ==
  /\ pc = "test"
  /\ ~NeedsGrowth(size, capacity)
  /\ pc' = "store"
  /\ UNCHANGED <<stream, stdinPos, c, capacity, size, buffer, bufAlloc, bufState,
                 bufFrees, res, resState, resFrees, parseCalls, out, err,
                 exitStatus, grown>>
  /\ UNCHANGED shimVars

\* Mutant of Reallocated: a fresh block, the old contents not carried over.
ReallocatedFresh(buf, newSize) == [i \in {} |-> 0]

\* realloc's result block: the old contents up to the smaller of both sizes.
Reallocated(buf, newSize) == [i \in {j \in DOMAIN buf : j < newSize} |-> buf[i]]

\* Mutant of Realloc: the failure path does not free the old block.
ReallocNoFree ==
  /\ pc = "realloc"
  /\ \/ /\ buffer' = [i \in {j \in DOMAIN buffer : j < capacity} |-> buffer[i]]
        /\ bufAlloc' = capacity
        /\ pc' = "store"
        /\ UNCHANGED <<err, exitStatus>>
     \/ /\ err' = Append(err, PerrorLine("Could not reallocate buffer with capacity"))
        /\ exitStatus' = EXIT_FAILURE
        /\ pc' = "exited"
        /\ UNCHANGED <<buffer, bufAlloc>>
  /\ UNCHANGED <<stream, stdinPos, c, capacity, size, bufState, bufFrees, res,
                 resState, resFrees, parseCalls, out, grown>>
  /\ UNCHANGED shimVars

\* main.c:40-46: newbuf = realloc(buffer, capacity); on failure the old block
\* is freed, the failure reported and the process ended.
Realloc ==
  /\ pc = "realloc"
  /\ \/ /\ buffer' = Reallocated(buffer, capacity)
        /\ bufAlloc' = capacity
        /\ pc' = "store"
        /\ UNCHANGED <<bufState, bufFrees, err, exitStatus>>
     \/ /\ bufState' = "freed"
        /\ bufFrees' = bufFrees + 1
        /\ err' = Append(err, PerrorLine("Could not reallocate buffer with capacity"))
        /\ exitStatus' = EXIT_FAILURE
        /\ pc' = "exited"
        /\ UNCHANGED <<buffer, bufAlloc>>
  /\ UNCHANGED <<stream, stdinPos, c, capacity, size, res, resState, resFrees,
                 parseCalls, out, grown>>
  /\ UNCHANGED shimVars

\* The block's cells after the write buf[at] = ch.
Written(buf, at, ch) ==
  IF at \in DOMAIN buf THEN [buf EXCEPT ![at] = ch] ELSE (at :> ch) @@ buf

\* main.c:48: buffer[size++] = (char)c.
Store ==
  /\ pc = "store"
  /\ IF bufState = "live" /\ size < bufAlloc
       THEN /\ buffer' = Written(buffer, size, ToChar(c))
            /\ size' = size + 1
            /\ pc' = "loop"
            /\ UNCHANGED <<stream, stdinPos, c, capacity, bufAlloc, bufState,
                           bufFrees, res, resState, resFrees, parseCalls, out,
                           err, exitStatus, grown>>
            /\ UNCHANGED shimVars
       ELSE Undefined

\* Mutant of Terminate: the terminator is not written.
TerminateMissing ==
  /\ pc = "term"
  /\ IF bufState = "live" /\ HasCStr(buffer, bufAlloc)
       THEN /\ err' = Append(err, DebugLine(52, CStrOf(buffer)))
            /\ pc' = "parse"
            /\ UNCHANGED <<stream, stdinPos, c, capacity, size, buffer, bufAlloc,
                           bufState, bufFrees, res, resState, resFrees,
                           parseCalls, out, exitStatus, grown>>
            /\ UNCHANGED shimVars
       ELSE Undefined

\* main.c:51-52: buffer[size] = '\0', then the debug print of the buffer.
Terminate ==
  /\ pc = "term"
  /\ IF /\ bufState = "live"
        /\ size < bufAlloc
        /\ HasCStr(Written(buffer, size, NUL), bufAlloc)
       THEN /\ buffer' = Written(buffer, size, NUL)
            /\ err' = Append(err, DebugLine(52, CStrOf(buffer')))
            /\ pc' = "parse"
            /\ UNCHANGED <<stream, stdinPos, c, capacity, size, bufAlloc,
                           bufState, bufFrees, res, resState, resFrees,
                           parseCalls, out, exitStatus, grown>>
            /\ UNCHANGED shimVars
       ELSE Undefined

\* main.c:54: char *res = parse_to_string(buffer).
CallParser ==
  /\ pc = "parse"
  /\ IF bufState = "live" /\ HasCStr(buffer, bufAlloc)
       THEN /\ res' = parse_to_string(CStrOf(buffer))
            /\ resState' = "live"
            /\ parseCalls' = parseCalls + 1
            /\ pc' = "print"
            /\ UNCHANGED <<stream, stdinPos, c, capacity, size, buffer, bufAlloc,
                           bufState, bufFrees, resFrees, out, err, exitStatus,
                           grown>>
            /\ UNCHANGED shimVars
       ELSE Undefined

\* Mutant of Printf: the format lacks the trailing newline.
PrintfNoNewline ==
  /\ pc = "print"
  /\ IF resState = "live"
       THEN /\ out' = out \o Header \o CStrOfSeq(res)
            /\ pc' = "free"
            /\ UNCHANGED <<stream, stdinPos, c, capacity, size, buffer, bufAlloc,
                           bufState, bufFrees, res, resState, resFrees,
                           parseCalls, err, exitStatus, grown>>
            /\ UNCHANGED shimVars
       ELSE Undefined

\* main.c:55: printf("RESULT:\n%s\n", res).
Printf ==
  /\ pc = "print"
  /\ IF resState = "live"
       THEN /\ out' = out \o Header \o CStrOfSeq(res) \o Newline
            /\ pc' = "free"
            /\ UNCHANGED <<stream, stdinPos, c, capacity, size, buffer, bufAlloc,
                           bufState, bufFrees, res, resState, resFrees,
                           parseCalls, err, exitStatus, grown>>
            /\ UNCHANGED shimVars
       ELSE Undefined

\* main.c:56: free(res).
FreeRes ==
  /\ pc = "free"
  /\ IF resState = "live"
       THEN /\ resState' = "freed"
            /\ resFrees' = resFrees + 1
            /\ pc' = "return"
            /\ UNCHANGED <<stream, stdinPos, c, capacity, size, buffer, bufAlloc,
                           bufState, bufFrees, res, parseCalls, out, err,
                           exitStatus, grown>>
            /\ UNCHANGED shimVars
       ELSE Undefined

\* main.c:57: return EXIT_SUCCESS.
Return ==
  /\ pc = "return"
  /\ exitStatus' = EXIT_SUCCESS
  /\ pc' = "done"
  /\ UNCHANGED <<stream, stdinPos, c, capacity, size, buffer, bufAlloc, bufState,
                 bufFrees, res, resState, resFrees, parseCalls, out, err, grown>>
  /\ UNCHANGED shimVars

\* ------------------------------------------------------- the binding shim
\* The texts the managed caller passes: "", "hi", "hello", and "a\0b" (an
\* OCaml string may hold NUL bytes).
ShimInputs == {<<>>, <<104, 105>>, <<104, 101, 108, 108, 111>>, <<97, NUL, 98>>}

\* The calls a caller makes in one run.
MaxCalls == 3

\* String_val(v): the bytes of the OCaml string, which the runtime keeps
\* followed by a NUL byte.
String_val(v) == v \o <<NUL>>

\* Mutant of caml_copy_string: the shim hands out a value cached by its first
\* call.
caml_copy_string_cached(s) ==
  IF shLog # <<>> THEN shLog[1][2] ELSE CStrOfSeq(s)

\* caml_copy_string(s): a managed string holding the C string s.
caml_copy_string(s) == CStrOfSeq(s)

ShimUndefined ==
  /\ sh_pc' = "UB"
  /\ UNCHANGED <<v_input, input, result, resultState, v_res, shAllocs, shFrees,
                 inputFrees, shLog>>
  /\ UNCHANGED accVars

\* grammar_stubs.c:10-12: the call enters, input = String_val(v_input).
ShimEnter ==
  /\ sh_pc = "idle"
  /\ Len(shLog) < MaxCalls
  /\ \E v \in ShimInputs :
       /\ v_input' = v
       /\ input' = String_val(v)
  /\ sh_pc' = "entered"
  /\ UNCHANGED <<result, resultState, v_res, shAllocs, shFrees, inputFrees, shLog>>
  /\ UNCHANGED accVars

\* grammar_stubs.c:13: result = parse_to_string((char*)input).
ShimParse ==
  /\ sh_pc = "entered"
  /\ result' = parse_to_string(CStrOfSeq(input))
  /\ resultState' = "live"
  /\ shAllocs' = shAllocs + 1
  /\ sh_pc' = "parsed"
  /\ UNCHANGED <<v_input, input, v_res, shFrees, inputFrees, shLog>>
  /\ UNCHANGED accVars

\* grammar_stubs.c:14: v_res = caml_copy_string(result).
ShimCopy ==
  /\ sh_pc = "parsed"
  /\ IF resultState = "live"
       THEN /\ v_res' = caml_copy_string(result)
            /\ sh_pc' = "copied"
            /\ UNCHANGED <<v_input, input, result, resultState, shAllocs,
                           shFrees, inputFrees, shLog>>
            /\ UNCHANGED accVars
       ELSE ShimUndefined

\* Mutant of ShimFree: the shim frees the caller's text instead of the
\* parser's result.
ShimFreeInput ==
  /\ sh_pc = "copied"
  /\ inputFrees' = inputFrees + 1
  /\ sh_pc' = "freed"
  /\ UNCHANGED <<v_input, input, result, resultState, v_res, shAllocs, shFrees,
                 shLog>>
  /\ UNCHANGED accVars

\* grammar_stubs.c:15: free(result).
ShimFree ==
  /\ sh_pc = "copied"
  /\ IF resultState = "live"
       THEN /\ resultState' = "freed"
            /\ shFrees' = shFrees + 1
            /\ sh_pc' = "freed"
            /\ UNCHANGED <<v_input, input, result, v_res, shAllocs, inputFrees,
                           shLog>>
            /\ UNCHANGED accVars
       ELSE ShimUndefined

\* grammar_stubs.c:16: CAMLreturn(v_res); the caller notes what it passed and
\* what it got, and the call's locals are gone.
ShimReturn ==
  /\ sh_pc = "freed"
  /\ shLog' = Append(shLog, <<v_input, v_res>>)
  /\ v_input' = <<>>
  /\ input' = <<>>
  /\ result' = <<>>
  /\ resultState' = "none"
  /\ v_res' = <<>>
  /\ sh_pc' = "idle"
  /\ UNCHANGED <<shAllocs, shFrees, inputFrees>>
  /\ UNCHANGED accVars

Next ==
  \/ Malloc
  \/ Fgetc
  \/ Double
  \/ NoGrowth
  \/ Realloc
  \/ Store
  \/ Terminate
  \/ CallParser
  \/ Printf
  \/ FreeRes
  \/ Return
  \/ ShimEnter
  \/ ShimParse
  \/ ShimCopy
  \/ ShimFree
  \/ ShimReturn

Spec == Init /\ [][Next]_vars

\* ------------------------------------------------------------- the claims
\* The bytes fgetc has delivered so far; at end-of-stream, the whole input.
Input == StreamPrefix(stream, stdinPos)

\* main's positions after the terminator was written.
AfterTerminate == {"parse", "print", "free", "return", "done"}

\* main's positions after the reading loop was left.
AfterLoop == AfterTerminate \cup {"term"}

\* n = InitialCapacity * 2^k for some k >= 0.
RECURSIVE IsDoubling(_)
IsDoubling(n) ==
  \/ n = InitialCapacity
  \/ n > InitialCapacity /\ n % 2 = 0 /\ IsDoubling(n \div 2)

\* The smallest cap * 2^k (k >= 0) that is >= n.
RECURSIVE SmallestFrom(_, _)
SmallestFrom(cap, n) == IF cap >= n THEN cap ELSE SmallestFrom(cap * 2, n)

\* C1: after reading an input of length L, the buffer holds the L input bytes,
\* then exactly one terminating NUL at index L, and nothing beyond: L+1 cells
\* in all, whatever L is relative to the initial capacity.
C1_TerminatedBuffer ==
  pc \in AfterTerminate =>
    /\ size = stdinPos
    /\ buffer = [i \in 0..stdinPos |->
                   IF i = stdinPos THEN NUL ELSE StreamByte(stream, i + 1)]

\* C1 witness: an input one byte longer than the initial capacity was read
\* and terminated.
C1_Witness ==
  /\ pc = "parse"
  /\ stdinPos = InitialCapacity + 1
  /\ buffer[InitialCapacity + 1] = NUL

\* C2: in every state of the accumulator capacity >= size + 1, the block
\* allocated is at least as large, and no write lands outside it.
C2_Headroom ==
  pc # "off" =>
    /\ capacity >= size + 1
    /\ pc # "UB"
    /\ bufState = "live" => bufAlloc >= size + 1
    /\ pc \in {"store", "term"} => bufState = "live" /\ size < bufAlloc

\* C2 witness: the terminator is about to be written into the last cell of
\* the block (an input of InitialCapacity - 1 bytes).
C2_Witness ==
  /\ pc = "term"
  /\ size + 1 = bufAlloc
  /\ size + 1 = capacity

\* C3: after accumulation the capacity is InitialCapacity * 2^k and
\* capacity >= size.
C3_CapacityShape ==
  pc \in AfterLoop => IsDoubling(capacity) /\ capacity >= size

\* C3 witness: the run ended after a doubling.
C3_Witness ==
  /\ pc = "done"
  /\ capacity = 2 * InitialCapacity
  /\ size >= InitialCapacity

\* C4: the parser is called exactly once on a run that completes, only after
\* end-of-stream was read and the terminator appended, and nothing is printed
\* before the parser has returned.
C4_ParseOnce ==
  pc # "off" =>
    /\ parseCalls <= 1
    /\ pc = "done" => parseCalls = 1
    /\ parseCalls = 1 =>
         /\ c = EOF
         /\ size \in DOMAIN buffer
         /\ buffer[size] = NUL
         /\ resState # "none"
    /\ pc \in {"start", "loop", "test", "realloc", "store", "term", "parse"} =>
         parseCalls = 0
    /\ out # <<>> => parseCalls = 1 /\ pc \in {"free", "return", "done"}
    /\ pc \in {"free", "return", "done"} => out # <<>>

\* C4 witness: a run completed, with the parser called and the result printed.
C4_Witness ==
  /\ pc = "done"
  /\ parseCalls = 1
  /\ stdinPos > InitialCapacity
  /\ out # <<>>

\* C5 (as claimed): when main returns, the input buffer has been released
\* exactly once.
C5_BufferReleased ==
  pc = "done" => bufState = "freed" /\ bufFrees = 1

\* C6: after an allocation failure the process has ended with a non-zero
\* status and a diagnostic as its last output, takes no further step, never
\* called the parser and wrote nothing to stdout; a growth failure released
\* the buffer exactly once, a failed first allocation had none to release.
C6_AllocationFailure ==
  pc = "exited" =>
    /\ exitStatus = EXIT_FAILURE
    /\ exitStatus # 0
    /\ err # <<>>
    /\ err[Len(err)][1] = "perror"
    /\ parseCalls = 0
    /\ resState = "none"
    /\ out = <<>>
    /\ size = stdinPos - grown
    /\ IF bufAlloc > 0
         THEN bufState = "freed" /\ bufFrees = 1 /\ grown = 1
         ELSE bufState = "none" /\ bufFrees = 0 /\ stdinPos = 0
    /\ ~ENABLED Next

\* C6 witness: a growth step failed, with InitialCapacity - 1 bytes stored.
C6_Witness ==
  /\ pc = "exited"
  /\ bufFrees = 1
  /\ capacity = 2 * InitialCapacity
  /\ size = InitialCapacity - 1

\* C7: a string the parser returned is released once, after its use: main
\* frees res after the print, the shim frees result after the copy and never
\* frees the caller's text; between shim calls allocations = releases.
C7_ResultReleasedOnce ==
  /\ resFrees <= 1
  /\ resState = "freed" => resFrees = 1 /\ out # <<>> /\ pc \in {"return", "done"}
  /\ pc \in {"return", "done"} => resState = "freed"
  /\ inputFrees = 0
  /\ shFrees <= shAllocs
  /\ resultState = "freed" => sh_pc = "freed" /\ v_res = CStrOfSeq(result)
  /\ resultState = "live" => shAllocs = shFrees + 1
  /\ sh_pc \in {"idle", "freed"} => shAllocs = shFrees
  /\ sh_pc = "idle" => shAllocs = Len(shLog) /\ resultState = "none"

\* C7 witness: two shim calls with different texts have returned.
C7_Witness ==
  /\ sh_pc = "idle"
  /\ Len(shLog) = 2
  /\ shLog[1][1] # shLog[2][1]
  /\ shAllocs = 2
  /\ shFrees = 2

\* C8: with the echoing parser, an input without NUL bytes is printed as
\* "RESULT:\n", the input, "\n", and the exit status is 0.
C8_EchoOutput ==
  (pc = "done" /\ \A i \in 1..stdinPos : StreamByte(stream, i) # NUL) =>
    /\ out = Header \o Input \o Newline
    /\ exitStatus = 0

\* C8 witness: an input longer than the initial capacity was echoed.
C8_Witness ==
  /\ pc = "done"
  /\ stream = 1
  /\ stdinPos = InitialCapacity + 2
  /\ Len(out) = Len(Header) + stdinPos + 1
  /\ out[Len(out) - 1] = 99

C10_States ==
  pc # "off" =>
    /\ grown <= 1
    /\ pc = "store" => size + 1 < capacity /\ bufAlloc = capacity
    /\ pc \in AfterLoop \cup {"loop"} =>
         /\ capacity = SmallestFrom(InitialCapacity, size + 1)
         /\ size = stdinPos

\* C10, the part about steps: the capacity changes exactly when
\* size + 1 >= capacity at the test, by doubling, and a growth step (the
\* doubling, the reallocation) leaves size and the stored bytes unchanged.
C10_Steps ==
  /\ pc = "test" => ((capacity' # capacity) <=> (size + 1 >= capacity))
  /\ capacity' # capacity => pc = "test" /\ capacity' = 2 * capacity
  /\ (pc \in {"test", "realloc"} /\ pc' # "exited") =>
       /\ size' = size
       /\ \A i \in 0..(size - 1) : i \in DOMAIN buffer' /\ buffer'[i] = buffer[i]

\* C10: the growth step fires exactly when size + 1 >= capacity, once per
\* byte at most and sufficiently, so the capacity after L bytes is the
\* smallest InitialCapacity * 2^k >= L + 1; growth keeps size and the bytes.
C10_Growth == []C10_States /\ [][C10_Steps]_vars

\* C10 witness: 1024 bytes were read and the capacity is 2048 (and was 1024
\* for 1023).
C10_Witness ==
  /\ pc = "loop"
  /\ size = InitialCapacity
  /\ capacity = 2 * InitialCapacity
  /\ SmallestFrom(InitialCapacity, InitialCapacity) = InitialCapacity

\* ------------------------------------------------------------ type check
TypeOK ==
  /\ pc \in {"off", "start", "loop", "test", "realloc", "store", "term", "parse",
             "print", "free", "return", "done", "exited"}
  /\ sh_pc \in {"off", "idle", "entered", "parsed", "copied", "freed"}
  /\ size \in 0..MaxLen

====
